---------------------------- MODULE Spec2Model ----------------------------
(***************************************************************************)
(* ai-rewind: checkpoint / rollback orchestration over a shadow git store. *)
(*                                                                         *)
(* The model follows src/src/AITracker.ts (class AITracker, lines 565 to   *)
(* 1269), src/src/Config.ts and src/src/db/index.ts.  The external engine  *)
(* (git) is modelled by what the commands the code issues do to the store: *)
(* history, HEAD, staging index, working tree, info/exclude and tags.      *)
(*                                                                         *)
(* Every operation of AITracker is a pure operator from the current store  *)
(* state and the call's arguments to the SET of results the call can have  *)
(* (one result per answer of the environment: status of the primary        *)
(* repository, answer at the confirmation prompt, failure of a tag         *)
(* command).  The action of the operation takes one of these results.      *)
(***************************************************************************)
EXTENDS Integers, Sequences, FiniteSets, TLC

(***************************************************************************)
(* Bounds of the model.                                                    *)
(***************************************************************************)
\* commit objects ever created in the store (Spec)
MaxCommits == 2
\* backup tag names ever generated (Spec)
MaxTagClock == 1
\* commit objects ever created in the store (SpecRetention)
RetMaxCommits == 2
\* backup tag names ever generated (SpecRetention): one more than KeepCount
RetMaxTagClock == 11
\* commit objects ever created in the store (SpecOlderTags, SpecForce,
\* SpecConcurrent)
OlderMaxCommits == 3
\* commits the user makes in the primary repository (SpecPrimary)
MaxMainCommits == 1
\* keys of the object in the configuration file (SpecConfig)
MaxKeys == 2

(***************************************************************************)
(* Program constants.                                                      *)
(***************************************************************************)
\* cleanupOldBackups(10): number of backup tags kept
KeepCount == 10
\* commit(): gc every GcEvery-th commit
GcEvery == 10

(***************************************************************************)
(* Working tree: files and contents.                                       *)
(***************************************************************************)
Files == {"a.txt", "x.log"}

Contents == {"absent", "v1", "v2"}

Trees == [Files -> Contents]

EmptyTree == [f \in Files |-> "absent"]

\* Config.defaults.excludePatterns, restricted to the patterns that match a
\* file of the model
DefaultExcludePatterns == {"**/*.log"}

\* gitignore-style match of a path against one pattern
Matches(pattern, f) == pattern = "**/*.log" /\ f = "x.log"

\* Config.excludePatterns getter: no project-local config file, the defaults
excludePatterns == DefaultExcludePatterns

(***************************************************************************)
(* The store.  A state of the store and working tree is a record           *)
(*   store    "absent" | "dir" (directory exists, not a repository) |      *)
(*            "repo"                                                       *)
(*   commits  sequence of commit objects [parent, tree]; the id of a       *)
(*            commit is its position, which is also its creation order     *)
(*   head     id of the commit HEAD resolves to (0: none)                  *)
(*   index    staging index                                                *)
(*   wt       working tree                                                 *)
(*   exclude  patterns in <store>/info/exclude                             *)
(*   tags     backup tags [name, target]; a name is the timestamp the      *)
(*            tag was named with                                           *)
(*   tagClock the last timestamp used for a tag name                       *)
(*   gitignore the ignore file of the working tree: whether it exists and  *)
(*            its content, a sequence of pieces of text                    *)
(*   mainGit  the primary repository at <workTree>/.git: whether it        *)
(*            exists and its history, the number of commits made in it     *)
(*            (its refs and configuration change with the same commands)   *)
(*   configFile the project-local configuration file                      *)
(*   config   the Config loaded from it, once a Config is constructed      *)
(*   rb       a rollback invocation in progress: the step it is at, its    *)
(*            arguments and what it has learnt so far                      *)
(***************************************************************************)
VARIABLES store, commits, head, index, wt, exclude, tags, tagClock, gitignore,
          mainGit, configFile, config, rb, last

vars == <<store, commits, head, index, wt, exclude, tags, tagClock, gitignore,
          mainGit, configFile, config, rb, last>>

Cur ==
  [store |-> store, commits |-> commits, head |-> head, index |-> index,
   wt |-> wt, exclude |-> exclude, tags |-> tags, tagClock |-> tagClock,
   gitignore |-> gitignore, mainGit |-> mainGit]

(***************************************************************************)
(* Engine (git) semantics used by the operations.                          *)
(***************************************************************************)
TreeOf(cs, c) == IF c = 0 THEN EmptyTree ELSE cs[c].tree

RECURSIVE RevListCount(_, _)
\* git rev-list --count <c>
RevListCount(cs, c) == IF c = 0 THEN 0 ELSE 1 + RevListCount(cs, cs[c].parent)

RECURSIVE Ancestor(_, _, _)
\* git rev-parse <c>~<n>; 0 when it does not exist
Ancestor(cs, c, n) ==
  IF c = 0 \/ n = 0 THEN c ELSE Ancestor(cs, cs[c].parent, n - 1)

\* untracked path hidden from status / add by info/exclude
Ignored(s, f) == s.index[f] = "absent" /\ \E p \in s.exclude : Matches(p, f)

\* git status --porcelain: the paths it reports
StatusPorcelain(s) ==
  {f \in Files :
     \/ s.index[f] # TreeOf(s.commits, s.head)[f]
     \/ s.index[f] # "absent" /\ s.wt[f] # s.index[f]
     \/ s.index[f] = "absent" /\ s.wt[f] # "absent" /\ ~Ignored(s, f)}

\* git add -A
AddAll(s) ==
  [s EXCEPT !.index = [f \in Files |-> IF Ignored(s, f) THEN "absent" ELSE s.wt[f]]]

\* git reset --hard <target>: index and tracked files become the target's
\* tree; untracked files the target does not contain are left alone
ResetHard(s, target) ==
  LET t == TreeOf(s.commits, target) IN
  [s EXCEPT !.head = target,
            !.index = t,
            !.wt = [f \in Files |->
                      IF t[f] # "absent" THEN t[f]
                      ELSE IF s.index[f] # "absent"
                              \/ TreeOf(s.commits, s.head)[f] # "absent"
                           THEN "absent"
                           ELSE s.wt[f]]]

\* git commit: a new commit object whose parent is HEAD
NewCommit(s) ==
  [s EXCEPT !.commits = Append(s.commits, [parent |-> s.head, tree |-> s.index]),
            !.head = Len(s.commits) + 1]

(***************************************************************************)
(* Results of a call.                                                      *)
(*   s        the store and working tree after the call                    *)
(*   outcome  how the call ended                                           *)
(*   raised   the call threw (the promise rejected)                        *)
(*   calls    store accesses in order: "existsSync" and engine commands    *)
(*   backupTag, tagOk, retireOk, retired, main, answer: see rollback       *)
(***************************************************************************)
Result(s, outcome, raised, calls) ==
  [s |-> s, outcome |-> outcome, raised |-> raised, calls |-> calls,
   backupTag |-> 0, tagOk |-> FALSE, retireOk |-> TRUE, retired |-> 0,
   main |-> "none", answer |-> "none"]

\* no primary repository at the working tree root
NoMainGit == [exists |-> FALSE, history |-> 0]

\* a primary repository the user has just created
EmptyMainGit == [exists |-> TRUE, history |-> 0]

\* a working tree without a store
NoStore ==
  [store |-> "absent", commits |-> <<>>, head |-> 0, index |-> EmptyTree,
   wt |-> EmptyTree, exclude |-> {}, tags |-> {}, tagClock |-> 0,
   gitignore |-> [exists |-> FALSE, content |-> <<>>], mainGit |-> NoMainGit]

\* isInitialized(): existence of the store path
isInitialized(s) == s.store # "absent"

\* execGit on a store path that is no repository: 'not a git repository'
NotARepository(s) == s.store # "repo"


(***************************************************************************)
(* updateGitignore(): the ignore file is text, modelled as a sequence of   *)
(* pieces: a line break, the tracking-directory entry, the comment line    *)
(* written above it, or some other text without a line break.              *)
(***************************************************************************)
NL == "\n"

trackingDirEntry == ".git-ai-tracking/"

CommentLine == "# AI Change Tracking"

OtherText == "node_modules/"

NoIgnoreFile == [exists |-> FALSE, content |-> <<>>]

\* content.includes(trackingDirEntry)
includes(content, piece) == \E i \in 1 .. Len(content) : content[i] = piece

\* content.endsWith('\n')
endsWithNewline(content) == Len(content) > 0 /\ content[Len(content)] = NL

\* updateGitignore writing only when there is no ignore file
updateGitignoreOnlyNew(g) ==
  IF g.exists
  THEN g
  ELSE [exists |-> TRUE, content |-> <<NL, CommentLine, NL, trackingDirEntry, NL>>]

\* updateGitignore appending without the test for the entry
updateGitignoreAlways(g) ==
  LET content == IF g.exists THEN g.content ELSE <<>> IN
  [exists |-> TRUE,
   content |-> IF Len(content) > 0 /\ ~endsWithNewline(content)
               THEN content \o <<NL, NL, CommentLine, NL, trackingDirEntry, NL>>
               ELSE content \o <<NL, CommentLine, NL, trackingDirEntry, NL>>]

updateGitignore(g) ==
  LET content == IF g.exists THEN g.content ELSE <<>> IN
  IF includes(content, trackingDirEntry)
  THEN g
  ELSE [exists |-> TRUE,
        content |-> IF Len(content) > 0 /\ ~endsWithNewline(content)
                    THEN content \o <<NL, NL, CommentLine, NL, trackingDirEntry, NL>>
                    ELSE content \o <<NL, CommentLine, NL, trackingDirEntry, NL>>]

(***************************************************************************)
(* initialize()                                                            *)
(***************************************************************************)
\* initialize without the test of the store path
initializeOverExisting(s) ==
  {Result(NewCommit(AddAll([s EXCEPT !.store = "repo", !.commits = <<>>, !.head = 0,
                                     !.index = EmptyTree, !.exclude = {}, !.tags = {},
                                     !.gitignore = updateGitignore(@)])),
          "Initialized", FALSE,
          <<"init", "config", "config", "config", "add", "commit", "gc">>)}

initialize(s) ==
  IF isInitialized(s)
  THEN {Result(s, "AlreadyInitialized", TRUE, <<"existsSync">>)}
  ELSE
    LET \* git init: a fresh repository, info/exclude holds no pattern
        s1 == [s EXCEPT !.store = "repo", !.commits = <<>>, !.head = 0,
                        !.index = EmptyTree, !.exclude = {}, !.tags = {},
                        !.gitignore = updateGitignore(@)]
        \* git add -A, then git commit --allow-empty
        s2 == NewCommit(AddAll(s1))
    IN {Result(s2, "Initialized", FALSE,
               <<"existsSync", "init", "config", "config", "config", "add",
                 "commit", "gc">>),
        \* the gc command that follows the initial commit fails: execGit
        \* throws and the catch of initialize rethrows
        Result(s2, "EngineError", TRUE,
               <<"existsSync", "init", "config", "config", "config", "add",
                 "commit", "gc">>)}

\* initialize() in which a step before the compaction fails: execGit (or
\* writeFileSync) throws, the catch of initialize reports and rethrows, and
\* what the steps before it did stays.  step is the failing step.
initializeFailing(s) ==
  IF isInitialized(s)
  THEN {}
  ELSE
    LET s1 == [s EXCEPT !.store = "repo", !.commits = <<>>, !.head = 0,
                        !.index = EmptyTree, !.exclude = {}, !.tags = {}]
        s2 == [s1 EXCEPT !.gitignore = updateGitignore(@)]
        s3 == AddAll(s2)
    IN {\* git init fails before or after it created the directory
        Result(s, "EngineError", TRUE, <<"existsSync", "init">>),
        Result([s EXCEPT !.store = "dir"], "EngineError", TRUE, <<"existsSync", "init">>),
        \* one of the three git config commands fails
        Result(s1, "EngineError", TRUE, <<"existsSync", "init", "config">>),
        \* the ignore file cannot be written
        Result(s1, "EngineError", TRUE,
               <<"existsSync", "init", "config", "config", "config">>),
        \* git add -A fails
        Result(s2, "EngineError", TRUE,
               <<"existsSync", "init", "config", "config", "config", "add">>),
        \* git commit fails
        Result(s3, "EngineError", TRUE,
               <<"existsSync", "init", "config", "config", "config", "add", "commit">>)}

(***************************************************************************)
(* commit(message)                                                         *)
(***************************************************************************)
\* exclude lists a configuration file can give: empty, the default one and a
\* longer one
ConfiguredPatterns == {{}, DefaultExcludePatterns, DefaultExcludePatterns \cup {"**/*.tmp"}}

\* "" stands for no message supplied
Messages == {"", "Fix bug", "cost $5", "<1001 characters>"}

MessageLength(m) ==
  CASE m = "" -> 0
    [] m = "Fix bug" -> 7
    [] m = "cost $5" -> 7
    [] OTHER -> 1001

\* commit(): messages longer than this are rejected
MaxMessageLength == 1000

\* execGit: an argument containing one of the dangerousPatterns
HasDangerousPattern(arg) == arg = "cost $5"

\* Config.formatCommitMessage() with the default commitMessageFormat
formatCommitMessage == "AI change at <timestamp>"

\* the status check of commit(): nothing to do
commitNoChanges(status) == status = {}

\* commit(message) by a tracker whose Config holds the exclude patterns
\* patterns
commitWith(s, message, patterns) ==
  IF message # "" /\ MessageLength(message) > MaxMessageLength
  THEN {Result(s, "InvalidMessage", TRUE, <<>>)}
  ELSE IF ~isInitialized(s)
  THEN {Result(s, "NotInitialized", TRUE, <<"existsSync">>)}
  ELSE IF NotARepository(s)
  THEN {Result(s, "NotInitialized", TRUE, <<"existsSync", "status">>)}
  ELSE IF commitNoChanges(StatusPorcelain(s))
  THEN {Result(s, "NoChanges", FALSE, <<"existsSync", "status">>)}
  ELSE
    LET \* the exclude list is written only when the configured list is not empty
        s1 == [s EXCEPT !.exclude = IF patterns # {} THEN patterns ELSE @]
        s2 == AddAll(s1)
        msg == IF message = "" THEN formatCommitMessage ELSE message
        staged == <<"existsSync", "status", "status", "add">>
        s3 == NewCommit(s2)
        gc == IF RevListCount(s3.commits, s3.head) % GcEvery = 0 THEN <<"gc">> ELSE <<>>
        after == <<"rev-list">> \o gc \o <<"log">>
    IN IF HasDangerousPattern(msg)
       THEN {Result(s2, "InvalidArgument", TRUE, staged)}
       ELSE IF s2.index = TreeOf(s2.commits, s2.head)
       THEN \* the engine has nothing to commit and exits non-zero
            {Result(s2, "NothingToCommit", TRUE, staged \o <<"commit">>)}
       ELSE {Result(s3, "Committed", FALSE, staged \o <<"commit">> \o after)}
            \cup
            \* a command that follows the engine's commit fails: execGit
            \* throws and the catch of commit rethrows
            {Result(s3, "EngineError", TRUE, staged \o <<"commit">> \o SubSeq(after, 1, k)) :
               k \in 1 .. Len(after)}

\* commit(message) with the default configuration
commit(s, message) == commitWith(s, message, excludePatterns)

(***************************************************************************)
(* rollback(count, options)                                                *)
(***************************************************************************)
\* a count is a number: int says whether it is an integer, v is its floor
CountInputs ==
  {[int |-> TRUE, v |-> n] : n \in 0 .. MaxCommits} \cup {[int |-> FALSE, v |-> 1]}

Options == [force : BOOLEAN, dryRun : BOOLEAN, noConfirm : BOOLEAN]

\* what the status query of the primary repository answers: no primary
\* repository, no change, uncommitted changes, or the query fails
MainStatuses == {"none", "clean", "dirty", "error"}

\* what the user types at the confirmation prompt
Answers == {"y", "YES", "n", ""}

toLowerCase(a) == IF a = "YES" THEN "yes" ELSE a

\* validCount without the Number.isInteger test
validCountNoIntegerTest(count) == count.v >= 1

\* Number.isInteger(count) && count >= 1
validCount(count) == count.int /\ count.v >= 1

\* ValidateDepth without the comparison of count with the checkpoint count
insufficientHistoryOnlyInitial(count, commitCount) == commitCount <= 1

\* ValidateDepth comparing with > instead of >=
insufficientHistoryOffByOne(count, commitCount) == commitCount <= 1 \/ count > commitCount

\* ValidateDepth
insufficientHistory(count, commitCount) == commitCount <= 1 \/ count >= commitCount

\* CheckLocalDirty with the force test inverted
localDirtyAbortInverted(status, options) == status # {} /\ options.force

\* CheckLocalDirty
localDirtyAbort(status, options) == status # {} /\ ~options.force

\* the query of the primary repository replaced by `git stash`, which
\* records the uncommitted changes in the primary store
CheckPrimaryDirtyStash(m) ==
  IF ~m.exists
  THEN {[main |-> "none", mainGit |-> m]}
  ELSE {[main |-> "clean", mainGit |-> [m EXCEPT !.history = @ + 1]],
        [main |-> "error", mainGit |-> m]}

\* existsSync(mainGitPath), then `git status --porcelain` run in the working
\* tree: what it answers depends on the primary repository's own index and
\* ignore rules; the query leaves the primary store as it is
CheckPrimaryDirty(m) ==
  IF ~m.exists
  THEN {[main |-> "none", mainGit |-> m]}
  ELSE {[main |-> a, mainGit |-> m] : a \in MainStatuses \ {"none"}}

\* CheckPrimaryDirty
mainRepoAbort(main, options) == main = "dirty" /\ ~options.force

\* DryRunPreview skipped under force
dryRunPreviewUnlessForce(options) == options.dryRun /\ ~options.force

\* DryRunPreview
dryRunPreview(options) == options.dryRun

\* Confirm is asked unless noConfirm or force
needsConfirm(options) == ~options.noConfirm /\ ~options.force

\* the answer test reduced to: anything but 'n' is a yes
affirmativeUnlessN(answer) == toLowerCase(answer) # "n"

affirmative(answer) == toLowerCase(answer) \in {"y", "yes"}

\* creatordate of a lightweight tag: the committer date of its commit; a
\* commit's date is its creation order
CreatorDate(t) == t.target

\* position of tag t in `git tag -l 'backup-*' --sort=-creatordate`; tags of
\* equal date come in refname order, ascending or descending with the engine
Rank(ts, t, tieAsc) ==
  Cardinality({u \in ts :
     \/ CreatorDate(u) > CreatorDate(t)
     \/ /\ CreatorDate(u) = CreatorDate(t)
        /\ IF tieAsc THEN u.name < t.name ELSE u.name > t.name})

\* backupTags.slice(keepCount)
tagsToDelete(ts, keepCount, tieAsc) == {t \in ts : Rank(ts, t, tieAsc) >= keepCount}

\* cleanupOldBackups slicing one position too late
cleanupOldBackupsKeepOneMore(ts, keepCount, tieAsc, nOk) ==
  ts \ {t \in tagsToDelete(ts, keepCount + 1, tieAsc) : Rank(ts, t, tieAsc) < keepCount + 1 + nOk}

\* cleanupOldBackups(keepCount): the tags left when the first nOk deletions
\* succeed (all of them, or the one after them fails and ends the cleanup)
cleanupOldBackups(ts, keepCount, tieAsc, nOk) ==
  ts \ {t \in tagsToDelete(ts, keepCount, tieAsc) : Rank(ts, t, tieAsc) < keepCount + nOk}

\* CreateBackup: the tag command fails, or the tag is created and the old
\* backups are cleaned up (retired: how many the cleanup deleted)
createBackup(s) ==
  LET name == s.tagClock + 1
      s0 == [s EXCEPT !.tagClock = name]
      ts == s.tags \cup {[name |-> name, target |-> s.head]}
      nDel == IF Cardinality(ts) > KeepCount THEN Cardinality(ts) - KeepCount ELSE 0
  IN {[s |-> s0, backupTag |-> name, tagOk |-> FALSE, retireOk |-> TRUE, retired |-> 0]}
     \cup
     {[s |-> [s0 EXCEPT !.tags = cleanupOldBackups(ts, KeepCount, tieAsc, nOk)],
       backupTag |-> name, tagOk |-> TRUE, retireOk |-> (nOk = nDel), retired |-> nOk] :
        tieAsc \in BOOLEAN, nOk \in 0 .. nDel}

\* ApplyReset without --hard: HEAD and index move, files stay
applyResetMixed(s, count) ==
  [s EXCEPT !.head = Ancestor(s.commits, s.head, count),
            !.index = TreeOf(s.commits, Ancestor(s.commits, s.head, count))]

\* ApplyReset: git reset --hard HEAD~count
applyReset(s, count) == ResetHard(s, Ancestor(s.commits, s.head, count))

RollbackCalls == <<"existsSync", "rev-list", "log", "status">>

\* the result of a rollback that went through CreateBackup with result b
AfterBackup(b, s, outcome, calls, main, answer) ==
  [Result(s, outcome, FALSE,
          RollbackCalls \o <<"tag">> \o (IF b.tagOk THEN <<"tag -l">> ELSE <<>>) \o calls)
     EXCEPT !.backupTag = b.backupTag, !.tagOk = b.tagOk, !.retireOk = b.retireOk,
            !.retired = b.retired, !.main = main, !.answer = answer]

\* the log command that follows the reset fails: execGit throws and the
\* catch of rollback rethrows
LogFailsAfterReset(b, count, main, answer) ==
  [AfterBackup(b, applyReset(b.s, count), "EngineError", <<"reset", "log">>, main, answer)
     EXCEPT !.raised = TRUE]

\* Confirm with the reset executed before the answer is examined
rollbackConfirmResetFirst(b, count, main) ==
  {AfterBackup(b, applyReset(b.s, count),
               IF affirmative(a) THEN "Completed" ELSE "Cancelled",
               <<"reset", "log">>, main, a) : a \in Answers}

\* Confirm, then ApplyReset and Done, or Cancelled
rollbackConfirm(b, count, main) ==
  {IF affirmative(a)
   THEN AfterBackup(b, applyReset(b.s, count), "Completed", <<"reset", "log">>, main, a)
   ELSE AfterBackup(b, b.s, "Cancelled", <<>>, main, a) : a \in Answers}
    \cup {LogFailsAfterReset(b, count, main, a) : a \in {x \in Answers : affirmative(x)}}

\* ApplyReset and Done without the prompt
rollbackNoConfirm(b, count, main) ==
  {AfterBackup(b, applyReset(b.s, count), "Completed", <<"reset", "log">>, main, "none"),
   LogFailsAfterReset(b, count, main, "none")}

\* CheckPrimaryDirty and the steps after it, for one answer of the primary
\* repository
rollbackFrom(s, count, options, main) ==
  IF mainRepoAbort(main, options)
  THEN {[Result(s, "MainRepoConflict", FALSE, RollbackCalls) EXCEPT !.main = main]}
  ELSE IF dryRunPreview(options)
  THEN {[Result(s, "DryRun", FALSE, RollbackCalls \o <<"rev-parse", "log", "diff">>)
           EXCEPT !.main = main]}
  ELSE UNION {IF needsConfirm(options)
              THEN rollbackConfirm(b, count, main)
              ELSE rollbackNoConfirm(b, count, main) : b \in createBackup(s)}

\* rollback with CheckLocalDirty evaluated before ValidateDepth
rollbackDirtyBeforeDepth(s, count, options) ==
  IF ~validCount(count)
  THEN {Result(s, "InvalidCount", TRUE, <<>>)}
  ELSE IF ~isInitialized(s)
  THEN {Result(s, "NotInitialized", TRUE, <<"existsSync">>)}
  ELSE IF NotARepository(s)
  THEN {Result(s, "NotInitialized", TRUE, <<"existsSync", "status">>)}
  ELSE IF localDirtyAbort(StatusPorcelain(s), options)
  THEN {Result(s, "UncommittedChangesConflict", FALSE, <<"existsSync", "status">>)}
  ELSE IF s.head = 0
  THEN {Result(s, "EngineError", TRUE, <<"existsSync", "status", "rev-list">>)}
  ELSE IF insufficientHistory(count.v, RevListCount(s.commits, s.head))
  THEN {Result(s, "InsufficientHistory", FALSE, <<"existsSync", "status", "rev-list">>)}
  ELSE UNION {rollbackFrom([s EXCEPT !.mainGit = q.mainGit], count.v, options, q.main) :
                q \in CheckPrimaryDirty(s.mainGit)}

rollback(s, count, options) ==
  IF ~validCount(count)
  THEN {Result(s, "InvalidCount", TRUE, <<>>)}
  ELSE IF ~isInitialized(s)
  THEN {Result(s, "NotInitialized", TRUE, <<"existsSync">>)}
  ELSE IF NotARepository(s)
  THEN {Result(s, "NotInitialized", TRUE, <<"existsSync", "rev-list">>)}
  ELSE IF s.head = 0
  THEN {Result(s, "EngineError", TRUE, <<"existsSync", "rev-list">>)}
  ELSE IF insufficientHistory(count.v, RevListCount(s.commits, s.head))
  THEN {Result(s, "InsufficientHistory", FALSE, <<"existsSync", "rev-list">>)}
  ELSE IF localDirtyAbort(StatusPorcelain(s), options)
  THEN {Result(s, "UncommittedChangesConflict", FALSE, RollbackCalls)}
  ELSE UNION {rollbackFrom([s EXCEPT !.mainGit = q.mainGit], count.v, options, q.main) :
                q \in CheckPrimaryDirty(s.mainGit)}


(***************************************************************************)
(* rollback step by step: every await of rollback is a point where the     *)
(* invocation is suspended and another invocation on the same working      *)
(* tree can run.  An invocation is a record                                *)
(*   pc       the step to run next ("idle": no invocation)                 *)
(*   count, options  the arguments                                         *)
(*   backupTag, tagOk, retired  the result of CreateBackup                 *)
(***************************************************************************)
Idle ==
  [pc |-> "idle", count |-> [int |-> TRUE, v |-> 0],
   options |-> [force |-> FALSE, dryRun |-> FALSE, noConfirm |-> FALSE],
   backupTag |-> 0, tagOk |-> FALSE, retired |-> 0]

Steps ==
  {"Validate", "CheckInit", "ValidateDepth", "CheckLocalDirty", "CheckPrimaryDirty",
   "DryRunPreview", "CreateBackup", "Confirm", "ApplyReset"}

\* the invocation b goes on to step pc with the store and working tree s
Goto(s, b, pc) ==
  [s |-> s, rb |-> [b EXCEPT !.pc = pc], ended |-> FALSE, outcome |-> "none",
   raised |-> FALSE]

\* the invocation ends: rollback returns or throws, nothing of it remains
End(s, outcome, raised) ==
  [s |-> s, rb |-> Idle, ended |-> TRUE, outcome |-> outcome, raised |-> raised]

\* Confirm without the return on an answer that is not a yes: the
\* invocation stays suspended
afterConfirmHangs(answer) == IF affirmative(answer) THEN "ApplyReset" ELSE "Suspended"

\* Confirm: the step that follows the answer
afterConfirm(answer) == IF affirmative(answer) THEN "ApplyReset" ELSE "Cancelled"

\* the ways the step b.pc of the invocation b can go from s
rollbackStep(s, b) ==
  CASE b.pc = "Validate" ->
         IF ~validCount(b.count)
         THEN {End(s, "InvalidCount", TRUE)}
         ELSE {Goto(s, b, "CheckInit")}
    [] b.pc = "CheckInit" ->
         IF ~isInitialized(s)
         THEN {End(s, "NotInitialized", TRUE)}
         ELSE {Goto(s, b, "ValidateDepth")}
    [] b.pc = "ValidateDepth" ->
         IF NotARepository(s)
         THEN {End(s, "NotInitialized", TRUE)}
         ELSE IF s.head = 0
         THEN {End(s, "EngineError", TRUE)}
         ELSE IF insufficientHistory(b.count.v, RevListCount(s.commits, s.head))
         THEN {End(s, "InsufficientHistory", FALSE)}
         ELSE {Goto(s, b, "CheckLocalDirty")}
    [] b.pc = "CheckLocalDirty" ->
         IF NotARepository(s)
         THEN {End(s, "NotInitialized", TRUE)}
         ELSE IF localDirtyAbort(StatusPorcelain(s), b.options)
         THEN {End(s, "UncommittedChangesConflict", FALSE)}
         ELSE {Goto(s, b, "CheckPrimaryDirty")}
    [] b.pc = "CheckPrimaryDirty" ->
         {IF mainRepoAbort(q.main, b.options)
          THEN End([s EXCEPT !.mainGit = q.mainGit], "MainRepoConflict", FALSE)
          ELSE Goto([s EXCEPT !.mainGit = q.mainGit], b,
                    IF dryRunPreview(b.options) THEN "DryRunPreview" ELSE "CreateBackup") :
            q \in CheckPrimaryDirty(s.mainGit)}
    [] b.pc = "DryRunPreview" ->
         IF Ancestor(s.commits, s.head, b.count.v) = 0
         THEN {End(s, "EngineError", TRUE)}
         ELSE {End(s, "DryRun", FALSE)}
    [] b.pc = "CreateBackup" ->
         {Goto(k.s, [b EXCEPT !.backupTag = k.backupTag, !.tagOk = k.tagOk,
                              !.retired = k.retired],
               IF needsConfirm(b.options) THEN "Confirm" ELSE "ApplyReset") :
            k \in createBackup(s)}
    [] b.pc = "Confirm" ->
         {IF afterConfirm(a) = "Cancelled"
          THEN End(s, "Cancelled", FALSE)
          ELSE Goto(s, b, afterConfirm(a)) : a \in Answers}
    [] b.pc = "ApplyReset" ->
         IF Ancestor(s.commits, s.head, b.count.v) = 0
         THEN {End(s, "EngineError", TRUE)}
         ELSE {End(applyReset(s, b.count.v), "Completed", FALSE),
               \* the log command that follows the reset fails
               End(applyReset(s, b.count.v), "EngineError", TRUE)}

(***************************************************************************)
(* forward(tagOrCommit)                                                    *)
(***************************************************************************)
\* a reference is a commit hash (the n-th commit object) or a backup tag name
Refs(maxCommit, maxTag) ==
  {[kind |-> "commit", n |-> c] : c \in 1 .. maxCommit}
    \cup {[kind |-> "tag", n |-> k] : k \in 1 .. maxTag}

\* git rev-parse <ref>: the commit it names, 0 when it does not resolve
RevParse(s, ref) ==
  IF NotARepository(s) THEN 0
  ELSE IF ref.kind = "commit"
  THEN IF ref.n \in 1 .. Len(s.commits) THEN ref.n ELSE 0
  ELSE IF \E t \in s.tags : t.name = ref.n
  THEN (CHOOSE t \in s.tags : t.name = ref.n).target
  ELSE 0

\* forward without the return after the failed resolution: the reset is
\* issued with the unresolved reference and the engine rejects it
forwardResetUnresolved(s, tagOrCommit) ==
  IF ~isInitialized(s)
  THEN {Result(s, "NotInitialized", TRUE, <<"existsSync">>)}
  ELSE IF RevParse(s, tagOrCommit) = 0
  THEN {Result(s, "EngineError", TRUE, <<"existsSync", "rev-parse", "tag -l", "reset">>)}
  ELSE {Result(ResetHard(s, RevParse(s, tagOrCommit)), "Restored", FALSE,
               <<"existsSync", "rev-parse", "reset", "log">>)}

forward(s, tagOrCommit) ==
  IF ~isInitialized(s)
  THEN {Result(s, "NotInitialized", TRUE, <<"existsSync">>)}
  ELSE IF RevParse(s, tagOrCommit) = 0
  THEN IF NotARepository(s)
       THEN {Result(s, "NotInitialized", TRUE, <<"existsSync", "rev-parse", "tag -l">>)}
       ELSE {Result(s, "NotFound", FALSE, <<"existsSync", "rev-parse", "tag -l">>)}
  ELSE {Result(ResetHard(s, RevParse(s, tagOrCommit)), "Restored", FALSE,
               <<"existsSync", "rev-parse", "reset", "log">>),
        \* the log command that follows the reset fails
        Result(ResetHard(s, RevParse(s, tagOrCommit)), "EngineError", TRUE,
               <<"existsSync", "rev-parse", "reset", "log">>)}

(***************************************************************************)
(* rollbackFile(filePath, commit)                                          *)
(***************************************************************************)
\* "sub/.." is a relative path whose last segment is a parent traversal
FilePaths == Files \cup {"", "../a.txt", "/a.txt", "sub/.."}

\* "" stands for no commit supplied
CommitRefs == {"", "HEAD", "HEAD~1", "HEAD;x"}

\* normalizedPath.includes('../') || normalizedPath.startsWith('/')
unsafePath(filePath) == filePath \in {"../a.txt", "/a.txt"}

\* /^[a-zA-Z0-9~^]+$/.test(commit)
validCommitRef(commitRef) == commitRef \in {"HEAD", "HEAD~1"}

\* the commit a reference of CommitRefs resolves to, 0 when it does not
ResolveCommit(s, commitRef) ==
  IF NotARepository(s) THEN 0
  ELSE IF commitRef = "HEAD" THEN s.head
  ELSE Ancestor(s.commits, s.head, 1)

\* the path restored in the index only, the working-tree file left as it is
CheckoutPathIndexOnly(s, target, filePath) ==
  [s EXCEPT !.index[filePath] = TreeOf(s.commits, target)[filePath]]

\* git checkout <target> -- . : every path instead of the one asked for
CheckoutEveryPath(s, target, filePath) ==
  [s EXCEPT !.index = TreeOf(s.commits, target), !.wt = TreeOf(s.commits, target)]

\* git checkout <target> -- <filePath>
CheckoutPath(s, target, filePath) ==
  [s EXCEPT !.index[filePath] = TreeOf(s.commits, target)[filePath],
            !.wt[filePath] = TreeOf(s.commits, target)[filePath]]

rollbackFile(s, filePath, commitRef) ==
  IF filePath = "" \/ unsafePath(filePath)
  THEN {Result(s, "InvalidPath", TRUE, <<>>)}
  ELSE IF commitRef # "" /\ ~validCommitRef(commitRef)
  THEN {Result(s, "InvalidCommitRef", TRUE, <<>>)}
  ELSE IF ~isInitialized(s)
  THEN {Result(s, "NotInitialized", TRUE, <<"existsSync">>)}
  ELSE
    LET targetCommit == IF commitRef = "" THEN "HEAD~1" ELSE commitRef
        target == ResolveCommit(s, targetCommit)
    IN IF target = 0 \/ filePath \notin Files
          \/ TreeOf(s.commits, target)[filePath] = "absent"
       THEN {Result(s, "FileNotFoundAtCheckpoint", FALSE, <<"existsSync", "cat-file">>)}
       ELSE {Result(CheckoutPath(s, target, filePath), "FileRestored", FALSE,
                    <<"existsSync", "cat-file", "checkout", "status">>)}

(***************************************************************************)
(* status(), log(), diff(), stats(), listBackups(): they read the store    *)
(***************************************************************************)
\* a read-only operation whose engine errors are caught and printed
Report(s, command) ==
  IF ~isInitialized(s)
  THEN {Result(s, "NotInitialized", FALSE, <<"existsSync">>)}
  ELSE IF NotARepository(s)
  THEN {Result(s, "NotInitialized", FALSE, <<"existsSync", command>>)}
  ELSE {Result(s, "Shown", FALSE, <<"existsSync", command>>)}

status(s) == Report(s, "status")

log(s) == Report(s, "log")

diff(s) == Report(s, "diff")

stats(s) == Report(s, "rev-list")

\* no try/catch around the engine call
listBackups(s) ==
  IF ~isInitialized(s)
  THEN {Result(s, "NotInitialized", FALSE, <<"existsSync">>)}
  ELSE IF NotARepository(s)
  THEN {Result(s, "NotInitialized", TRUE, <<"existsSync", "tag -l">>)}
  ELSE {Result(s, "Shown", FALSE, <<"existsSync", "tag -l">>)}

(***************************************************************************)
(* new AITracker(workTree): the guard on the working directory             *)
(***************************************************************************)
WorkTrees == {"/home/u/project", "/home/u/missing", "/home/u/a..b", "/etc", "/usr/local/x"}

\* existsSync(resolvedPath)
DirectoryExists(workTree) == workTree # "/home/u/missing"

\* resolvedPath.includes('..')
includesDotDot(workTree) == workTree = "/home/u/a..b"

\* systemDirs.some(dir => resolvedPath.startsWith(dir))
inSystemDir(workTree) == workTree \in {"/etc", "/usr/local/x"}

constructor(s, workTree) ==
  IF includesDotDot(workTree) \/ ~DirectoryExists(workTree)
  THEN {Result(s, "InvalidPath", TRUE, <<>>)}
  ELSE IF inSystemDir(workTree)
  THEN {Result(s, "InvalidPath", TRUE, <<>>)}
  ELSE {Result(s, "Constructed", FALSE, <<>>)}

(***************************************************************************)
(* new TrackerDatabase(workTree): creates the store directory if missing   *)
(***************************************************************************)
TrackerDatabase(s) ==
  {Result([s EXCEPT !.store = IF @ = "absent" THEN "dir" ELSE @], "Constructed", FALSE, <<"existsSync">>)}

(***************************************************************************)
(* Config.load(): the configuration file holds JSON.  A JSON value is a    *)
(* record: t its type, n the number, the length of the string or the truth *)
(* value (1, 0), items the elements of an array.                           *)
(***************************************************************************)
Num(n) == [t |-> "number", n |-> n, items |-> <<>>]

Str(n) == [t |-> "string", n |-> n, items |-> <<>>]

Bool(b) == [t |-> "boolean", n |-> IF b THEN 1 ELSE 0, items |-> <<>>]

Arr(items) == [t |-> "object", n |-> 0, items |-> items]

Null == [t |-> "null", n |-> 0, items |-> <<>>]

\* Array.isArray(v): of the values here, the objects are arrays
isArray(v) == v.t = "object"

KnownFields ==
  {"excludePatterns", "autoCommitThreshold", "commitMessageFormat", "maxCommits",
   "verboseOutput", "defaultBranch"}

\* keys a file can hold: the six fields and two others
Keys == KnownFields \cup {"gitDir", "__proto__"}

\* values a key of the file can have
FieldValues ==
  {Num(0), Num(50), Num(20000), Str(3), Str(120), Str(600), Bool(TRUE),
   Arr(<<>>), Arr(<<Str(5)>>), Arr(<<Str(5), Num(1), Str(1200)>>), Null}

\* the defaults: nine patterns, 5, 'AI change at {timestamp}', 100, false,
\* 'master'
defaults ==
  [excludePatterns |-> Arr(<<Str(15), Str(7), Str(19), Str(8), Str(10), Str(11),
                            Str(8), Str(14), Str(8)>>),
   autoCommitThreshold |-> Num(5),
   commitMessageFormat |-> Str(24),
   maxCommits |-> Num(100),
   verboseOutput |-> Bool(FALSE),
   defaultBranch |-> Str(6)]

Min(a, b) == IF a < b THEN a ELSE b

Max(a, b) == IF a > b THEN a ELSE b

\* the filter on the patterns and slice(0, 100)
MaxPatterns == 100

MaxPatternLength == 1000

validPatterns(items) ==
  LET kept == SelectSeq(items, LAMBDA p : p.t = "string" /\ p.n < MaxPatternLength)
  IN SubSeq(kept, 1, Min(Len(kept), MaxPatterns))

\* the validation with a number outside its range failing the test of the
\* field instead of being brought to the nearest end of the range
validatedRangeOrDefault(k, v) ==
  CASE k = "excludePatterns" ->
         IF isArray(v) THEN Arr(validPatterns(v.items)) ELSE Null
    [] k = "autoCommitThreshold" ->
         IF v.t = "number" /\ v.n >= 1 /\ v.n <= 1000 THEN v ELSE Null
    [] k = "commitMessageFormat" ->
         IF v.t = "string" /\ v.n < 500 THEN v ELSE Null
    [] k = "maxCommits" ->
         IF v.t = "number" /\ v.n >= 10 /\ v.n <= 10000 THEN v ELSE Null
    [] k = "verboseOutput" ->
         IF v.t = "boolean" THEN v ELSE Null
    [] k = "defaultBranch" ->
         IF v.t = "string" /\ v.n < 100 THEN v ELSE Null

\* the value validatedConfig gets for field k from the file's value v, or
\* Null when the test of the field fails and nothing is copied
validated(k, v) ==
  CASE k = "excludePatterns" ->
         IF isArray(v) THEN Arr(validPatterns(v.items)) ELSE Null
    [] k = "autoCommitThreshold" ->
         IF v.t = "number" THEN Num(Min(Max(1, v.n), 1000)) ELSE Null
    [] k = "commitMessageFormat" ->
         IF v.t = "string" /\ v.n < 500 THEN v ELSE Null
    [] k = "maxCommits" ->
         IF v.t = "number" THEN Num(Min(Max(10, v.n), 10000)) ELSE Null
    [] k = "verboseOutput" ->
         IF v.t = "boolean" THEN v ELSE Null
    [] k = "defaultBranch" ->
         IF v.t = "string" /\ v.n < 100 THEN v ELSE Null

\* what the configuration file holds: nothing (no file), more than 100000
\* characters, text that JSON.parse rejects, or JSON: null, a number, or an
\* object of at most MaxKeys keys
NoConfigFile == [kind |-> "absent", value |-> <<>>]

ConfigFiles ==
  {NoConfigFile}
    \cup {[kind |-> k, value |-> <<>>] : k \in {"tooLarge", "invalid", "null", "number"}}
    \cup {[kind |-> "object", value |-> o] :
            o \in UNION {[D -> FieldValues] :
                           D \in {E \in SUBSET Keys : Cardinality(E) <= MaxKeys}}}

\* integers a file can give for a numeric field: below, at the ends of,
\* inside and above the two ranges
NumericInputs == {-1, 0, 1, 9, 10, 50, 1000, 1001, 10000, 10001, 20000}

NumericFields == {"autoCommitThreshold", "maxCommits"}

\* configuration files that give integers for the numeric fields
NumericConfigFiles ==
  {[kind |-> "object", value |-> o] :
     o \in UNION {[D -> {Num(n) : n \in NumericInputs}] : D \in SUBSET NumericFields}}

\* { ...this.defaults, ...userConfig }: the merge without the validation
loadRawMerge(file) ==
  IF file.kind # "object"
  THEN defaults
  ELSE [k \in KnownFields \cup DOMAIN file.value |->
          IF k \in DOMAIN file.value THEN file.value[k] ELSE defaults[k]]

\* load(): a property read of null throws and the catch returns the
\* defaults; a number has none of the properties
load(file) ==
  IF file.kind # "object"
  THEN defaults
  ELSE [k \in KnownFields |->
          IF k \in DOMAIN file.value /\ validated(k, file.value[k]) # Null
          THEN validated(k, file.value[k])
          ELSE defaults[k]]

\* no Config constructed yet
NotLoaded == [loaded |-> FALSE, options |-> defaults]

\* new Config(workTree)
newConfig(file) == [loaded |-> TRUE, options |-> load(file)]

(***************************************************************************)
(* The command surface (cli): every command awaits the operation inside    *)
(* try/catch and calls process.exit(1) in the catch; otherwise the process *)
(* ends with code 0.                                                       *)
(***************************************************************************)
\* a count argument as typed; "" stands for none
CountArgs == {"", "1", "2", "0", "abc", "1.5"}

\* parseInt(count): nan for no leading digits
parseInt(arg) ==
  CASE arg = "1" -> [nan |-> FALSE, v |-> 1]
    [] arg = "2" -> [nan |-> FALSE, v |-> 2]
    [] arg = "0" -> [nan |-> FALSE, v |-> 0]
    [] arg = "1.5" -> [nan |-> FALSE, v |-> 1]
    [] OTHER -> [nan |-> TRUE, v |-> 0]

CliOptions == [force : BOOLEAN, dryRun : BOOLEAN, yes : BOOLEAN]

\* the exit code for a result of the awaited operation
cliExit(rs) == {[r |-> r, exit |-> IF r.raised THEN 1 ELSE 0] : r \in rs}

\* isNaN(n) || n < 1: 'Count must be a positive number', process.exit(1)
cliBadCount(n) == n.nan \/ n.v < 1

cliRollback(s, countArg, options) ==
  LET rollbackCount == IF countArg = "" THEN [nan |-> FALSE, v |-> 1] ELSE parseInt(countArg) IN
  IF cliBadCount(rollbackCount)
  THEN {[r |-> Result(s, "InvalidCount", TRUE, <<>>), exit |-> 1]}
  ELSE cliExit(rollback(s, [int |-> TRUE, v |-> rollbackCount.v],
                        [force |-> options.force, dryRun |-> options.dryRun,
                         noConfirm |-> options.yes]))

cliLog(s, countArg) ==
  LET logCount == IF countArg = "" THEN [nan |-> FALSE, v |-> 20] ELSE parseInt(countArg) IN
  IF cliBadCount(logCount)
  THEN {[r |-> Result(s, "InvalidCount", TRUE, <<>>), exit |-> 1]}
  ELSE cliExit(log(s))

\* the commands and the ways each can end from s
Cli(s) ==
  [init |-> cliExit(initialize(s)),
   commit |-> UNION {cliExit(commit(s, m)) : m \in {"", "Fix bug"}},
   rollback |-> UNION {cliRollback(s, a, o) : a \in CountArgs, o \in CliOptions},
   forward |-> UNION {cliExit(forward(s, ref)) : ref \in Refs(MaxCommits, MaxTagClock)},
   rollbackFile |-> UNION {cliExit(rollbackFile(s, f, c)) : f \in {"a.txt"}, c \in {"", "HEAD"}},
   backups |-> cliExit(listBackups(s)),
   status |-> cliExit(status(s)),
   log |-> UNION {cliLog(s, a) : a \in CountArgs},
   diff |-> cliExit(diff(s)),
   stats |-> cliExit(stats(s))]

Commands == DOMAIN Cli(NoStore)

(***************************************************************************)
(* The state machine.  last is the report of the last operation.           *)
(***************************************************************************)
Report0 == [op |-> "none", outcome |-> "none", raised |-> FALSE, retired |-> 0]

\* a working tree without a store, no operation run yet
FreshDirectory ==
  /\ store = "absent"
  /\ commits = <<>>
  /\ head = 0
  /\ index = EmptyTree
  /\ wt = EmptyTree
  /\ exclude = {}
  /\ tags = {}
  /\ tagClock = 0
  /\ config = NotLoaded
  /\ rb = Idle
  /\ last = Report0

\* the working tree of a project that is under the user's own version control
Init ==
  /\ FreshDirectory
  /\ gitignore = NoIgnoreFile
  /\ mainGit = EmptyMainGit
  /\ configFile = NoConfigFile

\* a working tree that holds a configuration file or none
InitConfig ==
  /\ FreshDirectory
  /\ gitignore = NoIgnoreFile
  /\ mainGit = EmptyMainGit
  /\ configFile \in ConfigFiles

\* a working tree whose configuration file gives the numeric fields
InitNumericConfig ==
  /\ FreshDirectory
  /\ gitignore = NoIgnoreFile
  /\ mainGit = EmptyMainGit
  /\ configFile \in NumericConfigFiles

\* the same, with or without a primary repository
InitPrimary ==
  /\ FreshDirectory
  /\ gitignore = NoIgnoreFile
  /\ mainGit \in {NoMainGit, EmptyMainGit}
  /\ configFile = NoConfigFile

\* ignore files a working tree can hold before the first initialize
IgnoreFiles ==
  {NoIgnoreFile}
    \cup {[exists |-> TRUE, content |-> c] :
            c \in {<<>>, <<OtherText>>, <<OtherText, NL>>,
                   <<trackingDirEntry, NL>>, <<OtherText, NL, trackingDirEntry>>,
                   <<OtherText, trackingDirEntry, NL>>}}

InitIgnoreFile ==
  /\ FreshDirectory
  /\ gitignore \in IgnoreFiles
  /\ mainGit = EmptyMainGit
  /\ configFile = NoConfigFile

\* what a result leaves behind: the store, the working tree and the report
Effect(r, op) ==
  [s |-> r.s,
   last |-> [op |-> op, outcome |-> r.outcome, raised |-> r.raised, retired |-> r.retired]]

\* the operation op ends with one of the results rs
Apply(rs, op) ==
  \E e \in {Effect(r, op) : r \in rs} :
    /\ store' = e.s.store
    /\ commits' = e.s.commits
    /\ head' = e.s.head
    /\ index' = e.s.index
    /\ wt' = e.s.wt
    /\ exclude' = e.s.exclude
    /\ tags' = e.s.tags
    /\ tagClock' = e.s.tagClock
    /\ gitignore' = e.s.gitignore
    /\ mainGit' = e.s.mainGit
    /\ UNCHANGED <<configFile, config, rb>>
    /\ last' = e.last

\* the user (or the AI assistant) writes or deletes a file of the working tree
WriteFile(f, c) ==
  /\ wt[f] # c
  /\ wt' = [wt EXCEPT ![f] = c]
  /\ last' = [Report0 EXCEPT !.op = "write"]
  /\ UNCHANGED <<store, commits, head, index, exclude, tags, tagClock, gitignore, mainGit,
                 configFile, config, rb>>

\* the user deletes the store directory (the message of initialize names
\* this as the way to initialize again); the working tree, the ignore file
\* and the clock stay
RemoveStore ==
  /\ store # "absent"
  /\ rb.pc = "idle"
  /\ store' = "absent"
  /\ commits' = <<>>
  /\ head' = 0
  /\ index' = EmptyTree
  /\ exclude' = {}
  /\ tags' = {}
  /\ last' = [Report0 EXCEPT !.op = "rm -rf"]
  /\ UNCHANGED <<wt, tagClock, gitignore, mainGit, configFile, config, rb>>

\* the user creates a primary repository in the working tree
MainGitInit ==
  /\ ~mainGit.exists
  /\ mainGit' = EmptyMainGit
  /\ last' = [Report0 EXCEPT !.op = "git init"]
  /\ UNCHANGED <<store, commits, head, index, wt, exclude, tags, tagClock, gitignore,
                 configFile, config, rb>>

\* the user commits in the primary repository
MainGitCommit ==
  /\ mainGit.exists
  /\ mainGit.history < MaxMainCommits
  /\ mainGit' = [mainGit EXCEPT !.history = @ + 1]
  /\ last' = [Report0 EXCEPT !.op = "git commit"]
  /\ UNCHANGED <<store, commits, head, index, wt, exclude, tags, tagClock, gitignore,
                 configFile, config, rb>>

\* new Config(workTree): the constructor loads the file
NewConfig ==
  /\ ~config.loaded
  /\ config' = newConfig(configFile)
  /\ last' = [Report0 EXCEPT !.op = "Config"]
  /\ UNCHANGED <<store, commits, head, index, wt, exclude, tags, tagClock, gitignore,
                 mainGit, configFile, rb>>

\* rollback(count, options) is called: an invocation begins
RollbackCall(count, options, cap) ==
  /\ rb.pc = "idle"
  /\ tagClock < cap
  /\ rb' = [Idle EXCEPT !.pc = "Validate", !.count = count, !.options = options]
  /\ UNCHANGED <<store, commits, head, index, wt, exclude, tags, tagClock, gitignore,
                 mainGit, configFile, config, last>>

\* the invocation in progress runs its next step
RollbackStep ==
  /\ rb.pc \in Steps
  /\ \E e \in rollbackStep(Cur, rb) :
       /\ store' = e.s.store
       /\ commits' = e.s.commits
       /\ head' = e.s.head
       /\ index' = e.s.index
       /\ wt' = e.s.wt
       /\ exclude' = e.s.exclude
       /\ tags' = e.s.tags
       /\ tagClock' = e.s.tagClock
       /\ gitignore' = e.s.gitignore
       /\ mainGit' = e.s.mainGit
       /\ rb' = e.rb
       /\ last' = IF e.ended
                  THEN [op |-> "rollback", outcome |-> e.outcome, raised |-> e.raised,
                        retired |-> rb.retired]
                  ELSE last
  /\ UNCHANGED <<configFile, config>>

Initialize == Apply(initialize(Cur), "initialize")

\* an initialize that fails at one of its steps
InitializeFails == Apply(initializeFailing(Cur), "initialize")

\* commit by an invocation whose configuration file gives the patterns
CommitWith(message, patterns, cap) ==
  Apply({r \in commitWith(Cur, message, patterns) : Len(r.s.commits) <= cap}, "commit")

Commit(message, cap) ==
  Apply({r \in commit(Cur, message) : Len(r.s.commits) <= cap}, "commit")

Rollback(count, options, cap) ==
  Apply({r \in rollback(Cur, count, options) : r.s.tagClock <= cap}, "rollback")

Forward(tagOrCommit) == Apply(forward(Cur, tagOrCommit), "forward")

RollbackFile(filePath, commitRef) ==
  Apply(rollbackFile(Cur, filePath, commitRef), "rollbackFile")

Status == Apply(status(Cur), "status")

Log == Apply(log(Cur), "log")

Diff == Apply(diff(Cur), "diff")

Stats == Apply(stats(Cur), "stats")

ListBackups == Apply(listBackups(Cur), "backups")

ConstructTrackerDatabase == Apply(TrackerDatabase(Cur), "TrackerDatabase")

Construct(workTree) == Apply(constructor(Cur, workTree), "constructor")

\* one command of the command surface
RunCommand(command, cap, tagCap) ==
  Apply({x.r : x \in {y \in Cli(Cur)[command] :
                        Len(y.r.s.commits) <= cap /\ y.r.s.tagClock <= tagCap}}, command)

\* checkpoints of one file, rollbacks and restores
Next ==
  \/ \E c \in Contents : WriteFile("a.txt", c)
  \/ Initialize
  \/ \E m \in {"", "Fix bug"} : Commit(m, MaxCommits)
  \/ \E c \in CountInputs, o \in Options : Rollback(c, o, MaxTagClock)
  \/ \E ref \in Refs(MaxCommits, MaxTagClock) : Forward(ref)

Spec == Init /\ [][Next]_vars

(***************************************************************************)
(* The backup tags over many rollbacks: commits of one file and rollbacks  *)
(* by one checkpoint, with and without the prompt, the tag commands of     *)
(* the engine succeeding.                                                  *)
(***************************************************************************)
RollbackTagsOk(count, options, cap) ==
  Apply({r \in rollback(Cur, count, options) :
           /\ r.s.tagClock <= cap
           /\ r.backupTag # 0 => r.tagOk /\ r.retireOk
           /\ r.outcome # "EngineError"},
        "rollback")

NextRetention ==
  \/ \E c \in {"absent", "v1"} : WriteFile("a.txt", c)
  \/ Initialize
  \/ Commit("Fix bug", RetMaxCommits)
  \/ \E nc \in BOOLEAN :
       RollbackTagsOk([int |-> TRUE, v |-> 1],
                      [force |-> FALSE, dryRun |-> FALSE, noConfirm |-> nc], RetMaxTagClock)
  \/ Forward([kind |-> "tag", n |-> tagClock])

SpecRetention == Init /\ [][NextRetention]_vars

(***************************************************************************)
(* The same with one checkpoint more, so that successive rollbacks tag     *)
(* checkpoints of different ages.                                          *)
(***************************************************************************)
NextOlderTags ==
  \/ \E c \in {"absent", "v1"} : WriteFile("a.txt", c)
  \/ Initialize
  \/ Commit("Fix bug", OlderMaxCommits)
  \/ \E nc \in BOOLEAN :
       RollbackTagsOk([int |-> TRUE, v |-> 1],
                      [force |-> FALSE, dryRun |-> FALSE, noConfirm |-> nc], RetMaxTagClock)
  \/ Forward([kind |-> "tag", n |-> tagClock])

SpecOlderTags == Init /\ [][NextOlderTags]_vars

(***************************************************************************)
(* Files matched by the exclude patterns: writes of both files, initialize *)
(* and commit.                                                             *)
(***************************************************************************)
NextExclude ==
  \/ \E f \in Files, c \in Contents : WriteFile(f, c)
  \/ Initialize
  \/ \E m \in {"", "Fix bug"} : Commit(m, MaxCommits)

SpecExclude == Init /\ [][NextExclude]_vars

(***************************************************************************)
(* The command surface driven by a user.                                   *)
(***************************************************************************)
NextCli ==
  \/ \E c \in {"absent", "v1"} : WriteFile("a.txt", c)
  \/ \E command \in Commands : RunCommand(command, MaxCommits, MaxTagClock)

SpecCli == Init /\ [][NextCli]_vars

(***************************************************************************)
(* Restores of single files: writes of both files, initialize, commit,     *)
(* rollbackFile with valid and invalid arguments, and the construction of  *)
(* a tracker on a working directory.                                       *)
(***************************************************************************)
NextFile ==
  \/ \E f \in Files, c \in Contents : WriteFile(f, c)
  \/ Initialize
  \/ Commit("", MaxCommits)
  \/ \E f \in FilePaths, c \in CommitRefs : RollbackFile(f, c)
  \/ \E w \in WorkTrees : Construct(w)

SpecFile == Init /\ [][NextFile]_vars

\* the same operations on working trees that hold an ignore file or none
SpecIgnoreFile == InitIgnoreFile /\ [][NextExclude]_vars

(***************************************************************************)
(* The life of the store: every operation of the command surface, on a     *)
(* working tree with and without a store, and the construction of the      *)
(* tracker database.                                                       *)
(***************************************************************************)
NextLifecycle ==
  \/ \E c \in {"absent", "v1"} : WriteFile("a.txt", c)
  \/ Initialize
  \/ Commit("", MaxCommits)
  \/ \E o \in Options : Rollback([int |-> TRUE, v |-> 1], o, MaxTagClock)
  \/ \E ref \in Refs(MaxCommits, MaxTagClock) : Forward(ref)
  \/ \E c \in {"", "HEAD"} : RollbackFile("a.txt", c)
  \/ Status
  \/ Log
  \/ Diff
  \/ Stats
  \/ ListBackups
  \/ ConstructTrackerDatabase

SpecLifecycle == Init /\ [][NextLifecycle]_vars

(***************************************************************************)
(* Forced rollbacks: checkpoints of one file over three checkpoints and    *)
(* rollbacks with force on clean and dirty working trees.                  *)
(***************************************************************************)
NextForce ==
  \/ \E c \in {"absent", "v1"} : WriteFile("a.txt", c)
  \/ Initialize
  \/ Commit("", OlderMaxCommits)
  \/ \E c \in CountInputs :
       Rollback(c, [force |-> TRUE, dryRun |-> FALSE, noConfirm |-> TRUE], MaxTagClock)

SpecForce == Init /\ [][NextForce]_vars

(***************************************************************************)
(* Rollbacks that ask: checkpoints of one file and rollbacks called with   *)
(* no flag, so that each of them stops at the prompt for an answer.        *)
(***************************************************************************)
NextConsent ==
  \/ \E c \in Contents : WriteFile("a.txt", c)
  \/ Initialize
  \/ \E m \in {"", "Fix bug"} : Commit(m, MaxCommits)
  \/ \E c \in CountInputs :
       Rollback(c, [force |-> FALSE, dryRun |-> FALSE, noConfirm |-> FALSE], MaxTagClock)

SpecConsent == Init /\ [][NextConsent]_vars

(***************************************************************************)
(* Invocations side by side: a rollback runs step by step while writes,    *)
(* initialize and commit of another invocation happen between its steps.   *)
(***************************************************************************)
NextSteps ==
  \/ \E c \in {"absent", "v1"} : WriteFile("a.txt", c)
  \/ Initialize
  \/ Commit("", MaxCommits)
  \/ \E c \in CountInputs, o \in Options : RollbackCall(c, o, MaxTagClock)
  \/ RollbackStep

\* every engine call returns and the prompt is answered: a step of the
\* invocation in progress is eventually run
SpecStepsFair == Init /\ [][NextSteps]_vars /\ WF_vars(RollbackStep)

\* the same over three checkpoints, the rollbacks by one checkpoint, with
\* and without the prompt
NextConcurrent ==
  \/ \E c \in {"absent", "v1"} : WriteFile("a.txt", c)
  \/ Initialize
  \/ Commit("", OlderMaxCommits)
  \/ \E nc \in BOOLEAN :
       RollbackCall([int |-> TRUE, v |-> 1],
                    [force |-> FALSE, dryRun |-> FALSE, noConfirm |-> nc], MaxTagClock)
  \/ RollbackStep

SpecConcurrent == Init /\ [][NextConcurrent]_vars

(***************************************************************************)
(* The primary repository next to the store: every operation, and the     *)
(* user creating and committing in the primary repository.                 *)
(***************************************************************************)
NextPrimary ==
  \/ NextLifecycle
  \/ MainGitInit
  \/ MainGitCommit

SpecPrimary == InitPrimary /\ [][NextPrimary]_vars

(***************************************************************************)
(* The configuration: a Config constructed on a working tree that holds    *)
(* any of the configuration files.                                         *)
(***************************************************************************)
NextConfig == NewConfig

SpecConfig == InitConfig /\ [][NextConfig]_vars

(***************************************************************************)
(* Depths of rollback: checkpoints of one file over three checkpoints,     *)
(* rollbacks with every count, restores and single-file restores.          *)
(***************************************************************************)
NextDepth ==
  \/ \E c \in {"absent", "v1"} : WriteFile("a.txt", c)
  \/ Initialize
  \/ Commit("", OlderMaxCommits)
  \/ \E c \in CountInputs, nc \in BOOLEAN :
       Rollback(c, [force |-> FALSE, dryRun |-> FALSE, noConfirm |-> nc], MaxTagClock)
  \/ \E ref \in Refs(OlderMaxCommits, MaxTagClock) : Forward(ref)
  \/ \E c \in {"HEAD", "HEAD~1"} : RollbackFile("a.txt", c)

SpecDepth == Init /\ [][NextDepth]_vars

(***************************************************************************)
(* Initializations that fail: writes of both files, initialize succeeding  *)
(* or failing at one of its steps, and commit.                             *)
(***************************************************************************)
NextInterrupted ==
  \/ NextExclude
  \/ InitializeFails

SpecInterrupted == Init /\ [][NextInterrupted]_vars

(***************************************************************************)
(* A configuration that changes between invocations: writes of both files, *)
(* initialize, and commits under each of the configured exclude lists.     *)
(***************************************************************************)
NextPatterns ==
  \/ \E f \in Files, c \in Contents : WriteFile(f, c)
  \/ Initialize
  \/ \E p \in ConfiguredPatterns : CommitWith("", p, MaxCommits)

SpecPatterns == Init /\ [][NextPatterns]_vars

(***************************************************************************)
(* Registrations in the ignore file: working trees that hold an ignore     *)
(* file or none, initialize, commit, rollback by one checkpoint, and the   *)
(* user deleting the store so that initialize runs again.                  *)
(***************************************************************************)
NextRegistration ==
  \/ \E c \in {"absent", "v1"} : WriteFile("a.txt", c)
  \/ Initialize
  \/ Commit("", MaxCommits)
  \/ Rollback([int |-> TRUE, v |-> 1],
              [force |-> FALSE, dryRun |-> FALSE, noConfirm |-> TRUE], MaxTagClock)
  \/ RemoveStore

SpecRegistration == InitIgnoreFile /\ [][NextRegistration]_vars

\* the same on the files that give integers for the numeric fields
SpecNumericConfig == InitNumericConfig /\ [][NextConfig]_vars

(***************************************************************************)
(* Properties.  Each is stated over every result r the operation can have  *)
(* from the current state, for every input.                                *)
(***************************************************************************)
\* HEAD, history, index, working tree and backup tags of r are the current ones
SameStore(r) ==
  /\ r.s.store = store
  /\ r.s.head = head
  /\ r.s.commits = commits
  /\ r.s.index = index
  /\ r.s.wt = wt
  /\ r.s.tags = tags

Called(r, command) == \E i \in 1 .. Len(r.calls) : r.calls[i] = command

\* C1: a rollback with 1 <= count < N and without force, on a store whose
\* working tree is dirty or whose primary repository is dirty, ends as an
\* abort: HEAD, checkpoint count, files and backup tags are unchanged and no
\* backup tag is created.
C1_DirtyAbortNoMutation ==
  \A c \in CountInputs, o \in Options :
    (/\ store = "repo"
     /\ c.int /\ 1 <= c.v /\ c.v < RevListCount(commits, head)
     /\ ~o.force)
    => \A r \in rollback(Cur, c, o) :
       (StatusPorcelain(Cur) # {} \/ r.main = "dirty")
       =>
       /\ r.outcome \in {"UncommittedChangesConflict", "MainRepoConflict"}
       /\ SameStore(r)
       /\ RevListCount(r.s.commits, r.s.head) = RevListCount(commits, head)
       /\ r.backupTag = 0
       /\ ~Called(r, "tag") /\ ~Called(r, "reset")

C1_Witness ==
  /\ last.op = "rollback"
  /\ last.outcome = "UncommittedChangesConflict"
  /\ StatusPorcelain(Cur) # {}
  /\ RevListCount(commits, head) >= 2
  /\ tags = {}

\* C2: a rollback with count >= N, N the number of checkpoints reachable from
\* HEAD (N = 1 included), ends as InsufficientHistory with HEAD, working tree
\* and backup tags unchanged, whatever the options are.
C2_InsufficientHistoryNoMutation ==
  \A c \in CountInputs, o \in Options :
    (/\ store = "repo"
     /\ c.int /\ 1 <= c.v /\ c.v >= RevListCount(commits, head))
    => \A r \in rollback(Cur, c, o) :
       /\ r.outcome = "InsufficientHistory"
       /\ SameStore(r)
       /\ r.backupTag = 0
       /\ ~Called(r, "tag") /\ ~Called(r, "reset")

C2_Witness ==
  /\ last.op = "rollback"
  /\ last.outcome = "InsufficientHistory"
  /\ RevListCount(commits, head) >= 2

\* C3: a rollback whose count is less than 1 or not an integer fails
\* validation before any engine call and any access to the store, whether the
\* store is initialized or not.
C3_InvalidCountBeforeStore ==
  \A c \in CountInputs, o \in Options :
    (~c.int \/ c.v < 1)
    => \A r \in rollback(Cur, c, o) :
       /\ r.outcome = "InvalidCount"
       /\ r.raised
       /\ r.calls = <<>>
       /\ r.s = Cur

C3_Witness ==
  /\ last.op = "rollback"
  /\ last.outcome = "InvalidCount"
  /\ last.raised
  /\ store = "repo"

\* C4: a rollback with dryRun and a valid count, with any force and noConfirm
\* and from any store state, leaves HEAD, working tree and backup tags
\* unchanged: no backup tag is created and no reset is executed.
C4_DryRunNoMutation ==
  \A c \in CountInputs, o \in Options :
    (c.int /\ 1 <= c.v /\ o.dryRun)
    => \A r \in rollback(Cur, c, o) :
       /\ SameStore(r)
       /\ r.backupTag = 0
       /\ ~Called(r, "tag") /\ ~Called(r, "reset")

C4_Witness ==
  /\ last.op = "rollback"
  /\ last.outcome = "DryRun"

C6_RetentionBound ==
  (last.op = "rollback" /\ last.outcome \in {"Completed", "Cancelled"})
  => Cardinality(tags) <= KeepCount

C6_Witness ==
  /\ last.op = "rollback"
  /\ last.retired >= 1
  /\ Cardinality(tags) = KeepCount

C8_CompletedRollbackRestoresTarget ==
  \A c \in CountInputs, o \in Options : \A r \in rollback(Cur, c, o) :
    (r.outcome = "Completed" /\ StatusPorcelain(Cur) = {})
    => LET n == RevListCount(commits, head)
           target == Ancestor(commits, head, c.v)
           discarded == {Ancestor(commits, head, k) : k \in 0 .. c.v - 1}
       IN /\ n > c.v
          /\ target # 0
          /\ r.s.head = target
          /\ RevListCount(r.s.commits, r.s.head) = n - c.v
          /\ \A f \in Files :
               /\ (commits[target].tree[f] = "absent"
                   /\ \E d \in discarded : commits[d].tree[f] # "absent")
                  => r.s.wt[f] = "absent"
               /\ commits[target].tree[f] # "absent"
                  => r.s.wt[f] = commits[target].tree[f]

C8_Witness ==
  /\ last.op = "rollback"
  /\ last.outcome = "Completed"
  /\ StatusPorcelain(Cur) = {}
  /\ wt["a.txt"] = "absent"
  /\ \E t \in tags : t.name = tagClock /\ commits[t.target].tree["a.txt"] # "absent"

\* C9: commit adds exactly one checkpoint, whose parent is the previous HEAD,
\* when the status of the store is not empty, and none, ending as a success,
\* when it is empty; after the checkpoint the status is empty, so that a
\* second commit without a file change is the no-op.
C9_CommitExactlyOneCheckpoint ==
  store = "repo" =>
    \A m \in {"", "Fix bug"} : \A r \in commit(Cur, m) :
      IF StatusPorcelain(Cur) # {}
      THEN /\ Len(r.s.commits) = Len(commits) + 1
           /\ SubSeq(r.s.commits, 1, Len(commits)) = commits
           /\ r.s.commits[Len(commits) + 1].parent = head
           /\ r.s.head = Len(commits) + 1
           /\ StatusPorcelain(r.s) = {}
      ELSE /\ r.s.commits = commits
           /\ r.s.head = head
           /\ ~r.raised

\* C10: on a working tree without a store, commit, rollback, forward and
\* rollbackFile fail with NotInitialized, status, log, diff, stats and backups
\* report it, and after each of them, and after the construction of any
\* component, the store path still does not exist.
C10_StoreOnlyByInitialize ==
  store = "absent" =>
    /\ \A r \in UNION ({commit(Cur, m) : m \in {"", "Fix bug"}}
                  \cup {rollback(Cur, c, o) : c \in {x \in CountInputs : x.int /\ x.v >= 1},
                                              o \in Options}
                  \cup {forward(Cur, ref) : ref \in Refs(MaxCommits, MaxTagClock)}
                  \cup {rollbackFile(Cur, f, c) : f \in Files, c \in {"", "HEAD", "HEAD~1"}}) :
         r.outcome = "NotInitialized" /\ r.raised /\ r.s.store = "absent"
    /\ \A r \in status(Cur) \cup log(Cur) \cup diff(Cur) \cup stats(Cur) \cup listBackups(Cur) :
         r.outcome = "NotInitialized" /\ r.s.store = "absent"
    /\ \A r \in TrackerDatabase(Cur) : r.s.store = "absent"

\* C11: initialize on a working tree whose store exists fails with
\* AlreadyInitialized and changes nothing: history, HEAD, backup tags, store
\* configuration and ignore file are those of before the call.
C11_AlreadyInitializedNoChange ==
  store # "absent" =>
    \A r \in initialize(Cur) :
      /\ r.outcome = "AlreadyInitialized"
      /\ r.raised
      /\ r.s = Cur
      /\ r.calls = <<"existsSync">>

C11_Witness ==
  /\ last.op = "initialize"
  /\ last.outcome = "AlreadyInitialized"
  /\ last.raised
  /\ Len(commits) >= 2
  /\ tags # {}

\* positions of the lines of an ignore file that are the tracking-directory
\* entry and nothing else
EntryLines(content) ==
  {i \in 1 .. Len(content) :
     /\ content[i] = trackingDirEntry
     /\ (i = 1 \/ content[i - 1] = NL)
     /\ (i = Len(content) \/ content[i + 1] = NL)}

\* the ignore file does not mention the tracking directory
NoMention(g) == \A i \in 1 .. Len(g.content) : g.content[i] # trackingDirEntry

\* the last store access of r is the compaction command
EndsWithGc(r) == Len(r.calls) > 0 /\ r.calls[Len(r.calls)] = "gc"

\* C12: an initialize on a fresh directory (no store, an ignore file, if
\* any, that does not mention the tracking directory) leaves the store in
\* existence, the tracking-directory entry in the ignore file, exactly one
\* checkpoint (the initial state) and no backup tag; it ends as Initialized
\* unless the compaction that follows the initial checkpoint fails.
C12_InitializeFreshDirectory ==
  (store = "absent" /\ NoMention(gitignore)) =>
    \A r \in initialize(Cur) :
      /\ ~r.raised => r.outcome = "Initialized"
      /\ r.raised => EndsWithGc(r)
      /\ r.s.store = "repo"
      /\ r.s.gitignore.exists
      /\ EntryLines(r.s.gitignore.content) # {}
      /\ Len(r.s.commits) = 1
      /\ r.s.head = 1
      /\ RevListCount(r.s.commits, r.s.head) = 1
      /\ r.s.commits[1].tree = [f \in Files |-> wt[f]]
      /\ r.s.tags = {}

C12_Witness ==
  /\ last.op = "initialize"
  /\ last.outcome = "Initialized"
  /\ store = "repo"
  /\ Len(gitignore.content) > 0 /\ gitignore.content[1] = OtherText
  /\ EntryLines(gitignore.content) # {}
  /\ Len(commits) = 1 /\ head = 1
  /\ tags = {}

\* the path matches an entry of the current excludePatterns
Excluded(f) == \E p \in excludePatterns : Matches(p, f)

\* C13: the checkpoint a commit creates records no addition and no change of
\* a path that matches a current excludePatterns entry, also when the path
\* existed in the working tree when the store was initialized or was modified
\* after it was created.
C13_StagingSkipsExcludedPaths ==
  store = "repo" =>
    \A m \in {"", "Fix bug"} : \A r \in commit(Cur, m) :
      r.outcome = "Committed"
      => \A f \in Files :
           Excluded(f)
           => r.s.commits[r.s.head].tree[f] \in {TreeOf(commits, head)[f], "absent"}

ReferenceCheckpoint(c) ==
  IF c = "HEAD" THEN head ELSE IF head = 0 THEN 0 ELSE commits[head].parent

\* C15: for a path that exists at the reference checkpoint R (default: the
\* parent of HEAD), a successful rollbackFile(relPath, R) followed by commit
\* leaves HEAD's content of relPath and the working-tree content of relPath
\* equal to the content of relPath at R.
C15_RollbackFileCommitRoundTrip ==
  \A f \in Files, c \in {"", "HEAD", "HEAD~1"} : \A r1 \in rollbackFile(Cur, f, c) :
    r1.outcome = "FileRestored"
    => LET R == ReferenceCheckpoint(c) IN
       /\ R # 0
       /\ commits[R].tree[f] # "absent"
       /\ \A m \in {"", "Fix bug"} : \A r2 \in commit(r1.s, m) :
            /\ r2.s.head # 0
            /\ r2.s.commits[r2.s.head].tree[f] = commits[R].tree[f]
            /\ r2.s.wt[f] = commits[R].tree[f]
            /\ (r2.outcome = "Committed" => r2.s.commits[r2.s.head].parent = head)

\* the file restored from the parent of HEAD differs from HEAD's, so that
\* the commit that follows creates a checkpoint
C15_Witness ==
  /\ last.op = "rollbackFile"
  /\ last.outcome = "FileRestored"
  /\ Len(commits) = 2 /\ head = 2
  /\ index["a.txt"] = commits[1].tree["a.txt"]
  /\ index["a.txt"] # commits[2].tree["a.txt"]
  /\ \E r2 \in commit(Cur, "Fix bug") :
       r2.outcome = "Committed" /\ r2.s.commits[3].tree["a.txt"] = commits[1].tree["a.txt"]

\* the commands a call sent to the engine (existsSync reads the file system)
EngineCalls(r) == {r.calls[i] : i \in 1 .. Len(r.calls)} \ {"existsSync"}

\* C16: rollbackFile with a path that is absolute or contains a
\* parent-traversal segment, rollbackFile with a fromCheckpoint holding a
\* character other than alphanumerics, '~' and '^', and the construction on
\* a denylisted system root all fail without one invocation of the engine
\* and without a mutation of the store.
C16_ValidationBeforeEngine ==
  /\ \A f \in {"/a.txt", "../a.txt", "sub/.."}, c \in CommitRefs :
       \A r \in rollbackFile(Cur, f, c) :
         r.raised /\ EngineCalls(r) = {} /\ r.s = Cur
  /\ \A f \in Files : \A r \in rollbackFile(Cur, f, "HEAD;x") :
       r.raised /\ EngineCalls(r) = {} /\ r.s = Cur
  /\ \A w \in {"/etc", "/usr/local/x"} : \A r \in constructor(Cur, w) :
       r.raised /\ EngineCalls(r) = {} /\ r.s = Cur

\* the reference names a commit object or a backup tag of the store
Resolves(ref) ==
  IF ref.kind = "commit"
  THEN ref.n \in 1 .. Len(commits)
  ELSE \E t \in tags : t.name = ref.n

\* C17: forward with a reference that does not resolve in the store reports
\* NotFound together with the known backup tags and mutates nothing: HEAD,
\* working tree and backup tags are unchanged.
C17_ForwardNotFoundNoMutation ==
  store = "repo" =>
    \A ref \in Refs(MaxCommits + 1, MaxTagClock + 1) :
      ~Resolves(ref)
      => \A r \in forward(Cur, ref) :
           /\ r.outcome = "NotFound"
           /\ Called(r, "tag -l")
           /\ ~Called(r, "reset")
           /\ r.s = Cur

C17_Witness ==
  /\ last.op = "forward"
  /\ last.outcome = "NotFound"
  /\ store = "repo"
  /\ head # 0

\* in the calls of r every command b comes after a command a
Precedes(r, a, b) ==
  \A j \in 1 .. Len(r.calls) :
    r.calls[j] = b => \E i \in 1 .. j - 1 : r.calls[i] = a

\* C18: every step that resets HEAD to a different checkpoint, the reset of
\* rollback and the reset of forward, comes after an attempt, in the same
\* invocation, to create a backup tag at the then-current HEAD.
C18_BackupBeforeRewind ==
  /\ \A c \in CountInputs, o \in Options : \A r \in rollback(Cur, c, o) :
       r.s.head # head
       => r.backupTag # 0 /\ Called(r, "tag") /\ Precedes(r, "tag", "reset")
  /\ \A ref \in Refs(MaxCommits, MaxTagClock) : \A r \in forward(Cur, ref) :
       r.s.head # head
       => Called(r, "tag") /\ Precedes(r, "tag", "reset")

\* the outcomes that are a failed guard or an error of the engine, and the
\* ones that are a success or a no-op success
FailedOutcomes ==
  {"NotInitialized", "InsufficientHistory", "UncommittedChangesConflict",
   "MainRepoConflict", "NotFound", "FileNotFoundAtCheckpoint", "EngineError",
   "NothingToCommit", "InvalidCount", "AlreadyInitialized"}

SuccessOutcomes ==
  {"Initialized", "Committed", "NoChanges", "Completed", "Cancelled", "DryRun",
   "Restored", "FileRestored", "Shown"}

\* C19: through the command surface an invocation exits with code 0 exactly
\* when it succeeded or was a no-op success, and with a non-zero code when a
\* guard failed (NotInitialized, InsufficientHistory,
\* UncommittedChangesConflict, MainRepoConflict, NotFound,
\* FileNotFoundAtCheckpoint) or the engine reported an error.
C19_ExitCodeTellsFailure ==
  \A command \in Commands : \A x \in Cli(Cur)[command] :
    /\ x.r.outcome \in SuccessOutcomes => x.exit = 0
    /\ x.r.outcome \in FailedOutcomes => x.exit # 0

\* C20: whenever a rollback or a commit is reported as failed (an error is
\* raised to the caller) the history and HEAD are those of before the call;
\* the history changes only in invocations reported as completed.
C20_FailureMeansNoChange ==
  \A r \in UNION ({rollback(Cur, c, o) : c \in CountInputs, o \in Options}
                   \cup {commit(Cur, m) : m \in Messages}) :
    /\ r.raised => r.s.commits = commits /\ r.s.head = head
    /\ (r.s.commits # commits \/ r.s.head # head)
       => ~r.raised /\ r.outcome \in {"Committed", "Completed"}


\* C21: no operation changes the primary repository's store: after init,
\* commit, rollback (every count, option set and outcome), forward,
\* rollbackFile, backups, status, log, diff and stats, and after the
\* construction of a tracker, the primary repository exists or not as before
\* and has the same history; and the primary repository is queried by
\* rollback only, and only when it exists.
C21_PrimaryStoreNeverChanged ==
  /\ \A c \in CountInputs, o \in Options : \A r \in rollback(Cur, c, o) :
       /\ r.s.mainGit = mainGit
       /\ r.main # "none" => mainGit.exists
  /\ \A r \in initialize(Cur) \cup status(Cur) \cup log(Cur) \cup diff(Cur)
                \cup stats(Cur) \cup listBackups(Cur) \cup TrackerDatabase(Cur) :
       r.s.mainGit = mainGit /\ r.main = "none"
  /\ \A m \in Messages : \A r \in commit(Cur, m) :
       r.s.mainGit = mainGit /\ r.main = "none"
  /\ \A ref \in Refs(MaxCommits, MaxTagClock) : \A r \in forward(Cur, ref) :
       r.s.mainGit = mainGit /\ r.main = "none"
  /\ \A f \in FilePaths, c \in CommitRefs : \A r \in rollbackFile(Cur, f, c) :
       r.s.mainGit = mainGit /\ r.main = "none"
  /\ \A w \in WorkTrees : \A r \in constructor(Cur, w) :
       r.s.mainGit = mainGit /\ r.main = "none"

\* a rollback stopped because the primary repository, in which the user has
\* committed, answered that it has uncommitted changes
C21_Witness ==
  /\ last.op = "rollback"
  /\ last.outcome = "MainRepoConflict"
  /\ mainGit.exists
  /\ mainGit.history > 0


\* the file's value of field k is of the wrong type or is an over-long string
failsValidation(k, v) ==
  CASE k = "excludePatterns" -> ~isArray(v)
    [] k \in {"autoCommitThreshold", "maxCommits"} -> v.t # "number"
    [] k = "commitMessageFormat" -> v.t # "string" \/ v.n >= 500
    [] k = "verboseOutput" -> v.t # "boolean"
    [] k = "defaultBranch" -> v.t # "string" \/ v.n >= 100

C23_RetirementKeepsNewest ==
  (\A t \in tags : t.target # head) =>
    \A nc \in BOOLEAN :
      \A r \in rollback(Cur, [int |-> TRUE, v |-> 1],
                        [force |-> FALSE, dryRun |-> FALSE, noConfirm |-> nc]) :
        (r.tagOk /\ r.retireOk /\ r.retired > 0) =>
          /\ \E t \in r.s.tags : t.name = r.backupTag
          /\ \A t \in r.s.tags :
               \A u \in (tags \cup {[name |-> r.backupTag, target |-> head]}) \ r.s.tags :
                 u.name < t.name


\* the steps of the rollback state machine a result went through, read from
\* its engine calls, the answer of the primary repository and the answer at
\* the prompt
ValidateDepthRan(r) == Called(r, "rev-list")

CheckLocalDirtyRan(r) == Called(r, "status")

CheckPrimaryDirtyRan(r) == r.main # "none"

DryRunPreviewRan(r) == Called(r, "rev-parse")

CreateBackupRan(r) == Called(r, "tag")

ConfirmRan(r) == r.answer # "none"

ApplyResetRan(r) == Called(r, "reset")

\* none of the steps from CheckPrimaryDirty on
StoppedBeforePrimary(r) ==
  /\ ~CheckPrimaryDirtyRan(r)
  /\ ~DryRunPreviewRan(r)
  /\ ~CreateBackupRan(r)
  /\ ~ConfirmRan(r)
  /\ ~ApplyResetRan(r)

\* C24: on an initialized store a rollback with a valid count evaluates
\* ValidateDepth, CheckLocalDirty, CheckPrimaryDirty, DryRunPreview,
\* CreateBackup, Confirm, ApplyReset in this order and stops at the first
\* that fails or terminates: count >= N ends as InsufficientHistory even on a
\* dirty tree, a dirty tree without force ends as the conflict abort even
\* with dryRun (no preview), a dirty primary repository without force ends
\* as MainRepoConflict, a dryRun ends after the preview, a negative answer
\* ends before the reset; no step after the stopping one is executed.
C24_StepsInOrder ==
  \A c \in CountInputs, o \in Options :
    (store = "repo" /\ head # 0 /\ mainGit.exists /\ c.int /\ c.v >= 1)
    => \A r \in rollback(Cur, c, o) :
         /\ ValidateDepthRan(r)
         /\ Precedes(r, "existsSync", "rev-list")
         /\ Precedes(r, "rev-list", "status")
         /\ Precedes(r, "status", "rev-parse")
         /\ Precedes(r, "status", "tag")
         /\ Precedes(r, "tag", "reset")
         /\ IF c.v >= RevListCount(commits, head)
            THEN /\ r.outcome = "InsufficientHistory"
                 /\ ~CheckLocalDirtyRan(r)
                 /\ StoppedBeforePrimary(r)
            ELSE IF StatusPorcelain(Cur) # {} /\ ~o.force
            THEN /\ r.outcome = "UncommittedChangesConflict"
                 /\ CheckLocalDirtyRan(r)
                 /\ StoppedBeforePrimary(r)
            ELSE IF r.main = "dirty" /\ ~o.force
            THEN /\ r.outcome = "MainRepoConflict"
                 /\ CheckLocalDirtyRan(r)
                 /\ ~DryRunPreviewRan(r) /\ ~CreateBackupRan(r)
                 /\ ~ConfirmRan(r) /\ ~ApplyResetRan(r)
            ELSE IF o.dryRun
            THEN /\ r.outcome = "DryRun"
                 /\ CheckLocalDirtyRan(r) /\ CheckPrimaryDirtyRan(r)
                 /\ DryRunPreviewRan(r)
                 /\ ~CreateBackupRan(r) /\ ~ConfirmRan(r) /\ ~ApplyResetRan(r)
            ELSE /\ CheckLocalDirtyRan(r) /\ CheckPrimaryDirtyRan(r)
                 /\ ~DryRunPreviewRan(r)
                 /\ CreateBackupRan(r)
                 /\ ConfirmRan(r) <=> (~o.noConfirm /\ ~o.force)
                 /\ IF ConfirmRan(r) /\ ~affirmative(r.answer)
                    THEN r.outcome = "Cancelled" /\ ~ApplyResetRan(r)
                    ELSE r.outcome \in {"Completed", "EngineError"} /\ ApplyResetRan(r)

\* a rollback of one checkpoint on a dirty tree whose only checkpoint is the
\* initial one has ended as InsufficientHistory
C24_Witness ==
  /\ last.op = "rollback"
  /\ last.outcome = "InsufficientHistory"
  /\ StatusPorcelain(Cur) # {}
  /\ RevListCount(commits, head) = 1


\* C25: the reset of a rollback is executed only with consent: in every
\* result in which the reset ran or HEAD moved, force is set, or noConfirm is
\* set, or the prompt was answered 'y' or 'yes' in any letter case; and with
\* neither flag set the prompt was answered before the reset.
C25_ResetOnlyWithConsent ==
  \A c \in CountInputs, o \in Options : \A r \in rollback(Cur, c, o) :
    (ApplyResetRan(r) \/ r.s.head # head \/ r.s.wt # wt \/ r.s.index # index)
    => /\ \/ o.force
          \/ o.noConfirm
          \/ r.answer \in {"y", "Y", "yes", "YES", "Yes"}
       /\ (~o.force /\ ~o.noConfirm) => ConfirmRan(r)

\* a rollback called with no flag has completed: the prompt was answered
\* with a yes and HEAD is an earlier checkpoint
C25_Witness ==
  /\ last.op = "rollback"
  /\ last.outcome = "Completed"
  /\ head < Len(commits)


\* how an invocation of rollback can end
RollbackTerminals ==
  {"InvalidCount", "NotInitialized", "EngineError", "InsufficientHistory",
   "UncommittedChangesConflict", "MainRepoConflict", "DryRun", "Cancelled", "Completed"}

\* C26: every rollback invocation in progress eventually ends, and when it
\* ends it has reported one way of ending (an abort, the dry-run preview, a
\* cancel, a completion or an error thrown), a cancel is not an error, and
\* nothing of the invocation remains; provided every step of it is
\* eventually run (engine calls return, the prompt is answered).
C26_RollbackTerminates ==
  /\ (rb.pc # "idle") ~> (rb.pc = "idle" /\ last.op = "rollback")
  /\ [](rb.pc = "idle" => rb = Idle)
  /\ []((last.op = "rollback") =>
          /\ last.outcome \in RollbackTerminals
          /\ last.outcome = "Cancelled" => ~last.raised)

\* a rollback that waited at the prompt has ended as cancelled
C26_Witness ==
  /\ rb.pc = "idle"
  /\ last.op = "rollback"
  /\ last.outcome = "Cancelled"


\* C27: after any completed rollback, one run with force on a dirty working
\* tree included, every file of the working tree that no exclude pattern
\* matches is in the new HEAD checkpoint with the same content, and no other
\* such file exists.
C27_CompletedRollbackNoLaterContent ==
  \A c \in CountInputs, o \in Options : \A r \in rollback(Cur, c, o) :
    r.outcome = "Completed"
    => \A f \in Files :
         ~Excluded(f) => r.s.wt[f] = TreeOf(r.s.commits, r.s.head)[f]


\* C28: if rollback(1) completes from a clean working tree and reports the
\* backup tag T, then forward(T) run next resolves T and restores HEAD, the
\* checkpoint count, the index and the files to their values before the
\* rollback.  Stated for the rollbacks whose tag command and cleanup both
\* succeed and whose new tag points at a checkpoint no other backup tag
\* points at.
C28_RollbackForwardRoundTrip ==
  (StatusPorcelain(Cur) = {} /\ \A t \in tags : t.target # head) =>
    \A nc \in BOOLEAN :
      \A r \in rollback(Cur, [int |-> TRUE, v |-> 1],
                        [force |-> FALSE, dryRun |-> FALSE, noConfirm |-> nc]) :
        (r.outcome = "Completed" /\ r.tagOk /\ r.retireOk) =>
          \A f \in forward(r.s, [kind |-> "tag", n |-> r.backupTag]) :
            /\ f.outcome # "NotFound"
            /\ f.s.head = head
            /\ RevListCount(f.s.commits, f.s.head) = RevListCount(commits, head)
            /\ f.s.index = index
            /\ f.s.wt = wt


\* C29: in every execution, also when another invocation commits after the
\* rollback has created its backup tag and asked for confirmation, the
\* backup tag points, at the moment the reset is about to run, at the
\* checkpoint that is HEAD, the state the reset discards.  Stated for the
\* rollbacks that ask for confirmation.
C29_BackupTagIsDiscardedHead ==
  (rb.pc = "ApplyReset" /\ rb.tagOk /\ needsConfirm(rb.options)) =>
    \A t \in tags : t.name = rb.backupTag => t.target = head


\* C30: compaction is best-effort: once the checkpoint is created, no
\* initialize and no commit whose last engine command is the compaction
\* reports failure, whether the compaction succeeds or fails.
C30_CompactionBestEffort ==
  /\ \A r \in initialize(Cur) : EndsWithGc(r) => ~r.raised
  /\ \A m \in Messages : \A r \in commit(Cur, m) : EndsWithGc(r) => ~r.raised


\* C31: a commit whose message the argument check rejects fails with
\* InvalidArgument before any mutation of the store: the staging index, the
\* exclude list of the store and the history are what they were before the
\* call.
C31_RejectedMessageNoMutation ==
  \A m \in Messages : \A r \in commit(Cur, m) :
    (HasDangerousPattern(m) /\ store = "repo" /\ StatusPorcelain(Cur) # {})
    => /\ r.outcome = "InvalidArgument"
       /\ r.raised
       /\ r.s.commits = commits
       /\ r.s.head = head
       /\ r.s.index = index
       /\ r.s.exclude = exclude


\* nothing is left to stage: with the configured exclude patterns in force,
\* staging every change gives the tree of HEAD (the status is empty, or the
\* only changes are new paths the patterns match)
NothingLeftToStage ==
  AddAll([Cur EXCEPT !.exclude = excludePatterns]).index = TreeOf(commits, head)

\* C32: NoChanges is never an error: whenever commit has nothing left to
\* stage, with an empty status or with changes only to paths the exclude
\* patterns match, it ends as a success that does nothing, and the checkpoint
\* count is unchanged.
C32_NoChangesIsSuccess ==
  (store = "repo" /\ NothingLeftToStage) =>
    \A m \in {"", "Fix bug"} : \A r \in commit(Cur, m) :
      /\ ~r.raised
      /\ r.outcome = "NoChanges"
      /\ RevListCount(r.s.commits, r.s.head) = RevListCount(commits, head)


RECURSIVE ReachableFrom(_, _)
\* the checkpoints reachable from checkpoint c along the parent edges
ReachableFrom(cs, c) == IF c = 0 THEN {} ELSE {c} \cup ReachableFrom(cs, cs[c].parent)

\* the checkpoints the store retains: reachable from HEAD or from a backup tag
Retained ==
  ReachableFrom(commits, head) \cup UNION {ReachableFrom(commits, t.target) : t \in tags}

\* C33: no operation creates branching: every checkpoint the store retains
\* has at most one retained child, so the retained history is one linear
\* chain rooted at the initial checkpoint.
C33_RetainedHistoryLinear ==
  \A c \in Retained :
    Cardinality({d \in Retained : commits[d].parent = c}) <= 1


C35_InitializedHasInitialCheckpoint ==
  isInitialized(Cur) =>
    /\ store = "repo"
    /\ head \in 1 .. Len(commits)
    /\ 1 \in ReachableFrom(commits, head)


\* C36: after every commit that creates a checkpoint, the exclude list of
\* the store equals the exclude patterns of the Config in force, also when
\* the configured list is empty or shorter than the list an earlier commit
\* wrote.
C36_ExcludeListFollowsConfig ==
  \A p \in ConfiguredPatterns : \A r \in commitWith(Cur, "", p) :
    r.outcome = "Committed" => r.s.exclude = p


\* the number of places of an ignore file that hold the text of the
\* tracking-directory entry
Mentions(content) == Cardinality({i \in 1 .. Len(content) : content[i] = trackingDirEntry})

\* the sequence a is the beginning of the sequence b
IsPrefix(a, b) == Len(a) <= Len(b) /\ SubSeq(b, 1, Len(a)) = a

RangeOf(k) ==
  IF k = "autoCommitThreshold" THEN [lo |-> 1, hi |-> 1000] ELSE [lo |-> 10, hi |-> 10000]

InRange(k, n) == RangeOf(k).lo <= n /\ n <= RangeOf(k).hi

\* C38 as stated: for every integer the file gives for autoCommitThreshold
\* or maxCommits, the loaded Config holds the built-in default of the field
\* (5, 100) when the integer is outside the range of the field ([1,1000],
\* [10,10000]) and the integer itself when it is inside.
C38_OutOfRangeFallsBackToDefault ==
  config.loaded =>
    \A k \in NumericFields \cap DOMAIN configFile.value :
      config.options[k] = IF InRange(k, configFile.value[k].n)
                          THEN configFile.value[k]
                          ELSE defaults[k]

\* C38 amended: the loaded Config holds the integer itself when it is inside
\* the range of the field, the lower end of the range when it is below and
\* the upper end when it is above; a field the file does not give has its
\* default.
C38_OutOfRangeIsClamped ==
  config.loaded =>
    \A k \in NumericFields :
      IF k \in DOMAIN configFile.value
      THEN LET n == configFile.value[k].n IN
           config.options[k] = Num(IF n < RangeOf(k).lo THEN RangeOf(k).lo
                                   ELSE IF n > RangeOf(k).hi THEN RangeOf(k).hi
                                   ELSE n)
      ELSE config.options[k] = defaults[k]

\* a Config loaded from a file that gives 1001 for autoCommitThreshold and 9
\* for maxCommits holds 1000 and 10
C38_Witness ==
  /\ config.loaded
  /\ DOMAIN configFile.value = NumericFields
  /\ configFile.value["autoCommitThreshold"] = Num(1001)
  /\ configFile.value["maxCommits"] = Num(9)
  /\ config.options["autoCommitThreshold"] = Num(1000)
  /\ config.options["maxCommits"] = Num(10)

=============================================================================
